---------------------------- MODULE Spec2Model ----------------------------
(***************************************************************************)
(* Model of the timetracking command line tool (src/src/main.rs).          *)
(*                                                                         *)
(* One run of the program is: read_data(path), interpret one command,      *)
(* write_data(path, data).  A run that panics (an unwrap on an unparsable  *)
(* --at string) ends before write_data and leaves the file as it was.      *)
(*                                                                         *)
(* Instants are milliseconds since the Unix epoch (UTC).  All dates of the *)
(* model lie in January 1970 so that millisecond values fit TLC's          *)
(* integers.  A calendar date (NaiveDate) is its day number since the      *)
(* epoch, a NaiveDateTime is a record [day, secs].  The local timezone is  *)
(* a fixed offset tz (milliseconds east of UTC).                           *)
(*                                                                         *)
(* Strings given on the command line are sequences of tokens: a run of     *)
(* digits is a number token, everything else a literal token.              *)
(***************************************************************************)
EXTENDS Integers, Sequences, FiniteSets, TLC

(***************************************************************************)
(* Bounds of the model.                                                    *)
(***************************************************************************)
\* commands that may append are run only on logs shorter than this
MaxLog == 3
\* the same bound for the runs of SpecLog
MaxLongLog == 5

(***************************************************************************)
(* Units.                                                                  *)
(***************************************************************************)
MsPerSec  == 1000
SecPerMin == 60
MinPerHour == 60
SecPerHour == SecPerMin * MinPerHour
SecPerDay == 24 * SecPerHour
MsPerDay  == SecPerDay * MsPerSec

\* Option<T>
None    == << >>
Some(x) == << x >>
IsSome(o) == o # None
Unwrap(o) == o[1]

\* division truncating toward zero (Rust's integer division)
TruncDiv(a, b) == IF a >= 0 THEN a \div b ELSE -((-a) \div b)

(***************************************************************************)
(* Command line strings.                                                   *)
(***************************************************************************)
Num(n) == [lit |-> "", num |-> n]
Lit(c) == [lit |-> c, num |-> 0]

\* s has the shape pat: "n" stands for a number token, anything else for
\* that literal
Shaped(s, pat) ==
    /\ Len(s) = Len(pat)
    /\ \A i \in 1..Len(pat) :
          IF pat[i] = "n" THEN s[i].lit = "" ELSE s[i].lit = pat[i]

FmtHMS    == << "n", ":", "n", ":", "n" >>
FmtYMD    == << "n", "-", "n", "-", "n" >>
FmtYMDHMS == FmtYMD \o << " " >> \o FmtHMS

IsLeap(y) == (y % 4 = 0 /\ y % 100 # 0) \/ y % 400 = 0

DaysInMonth(y, m) ==
    IF m = 2 THEN (IF IsLeap(y) THEN 28 + 1 ELSE 28)
    ELSE IF m \in {4, 6, 9, 11} THEN 30 ELSE 31

\* day number since 1970-01-01 of the civil date y-m-d
DaysFromCivil(y, m, d) ==
    LET yy  == IF m <= 2 THEN y - 1 ELSE y
        era == yy \div 400
        yoe == yy - era * 400
        mp  == IF m > 2 THEN m - 3 ELSE m + 9
        doy == (153 * mp + 2) \div 5 + d - 1
        doe == yoe * 365 + yoe \div 4 - yoe \div 100 + doy
    IN  era * 146097 + doe - 719468

\* NaiveTime::parse_from_str(s, "%H:%M:%S"): Some(second of the day) or None
NaiveTime_parse(s) ==
    IF /\ Shaped(s, FmtHMS)
       /\ s[1].num < 24 /\ s[3].num < MinPerHour /\ s[5].num < SecPerMin
    THEN Some(s[1].num * SecPerHour + s[3].num * SecPerMin + s[5].num)
    ELSE None

\* NaiveDate::parse_from_str(s, "%Y-%m-%d"): Some(day number) or None
NaiveDate_parse(s) ==
    IF /\ Shaped(s, FmtYMD)
       /\ s[3].num \in 1..12
       /\ s[5].num \in 1..DaysInMonth(s[1].num, s[3].num)
    THEN Some(DaysFromCivil(s[1].num, s[3].num, s[5].num))
    ELSE None

\* NaiveDateTime::parse_from_str(s, "%Y-%m-%d %H:%M:%S")
NaiveDateTime_parse(s) ==
    IF Shaped(s, FmtYMDHMS)
    THEN LET d == NaiveDate_parse(SubSeq(s, 1, 5))
             t == NaiveTime_parse(SubSeq(s, 7, 11))
         IN  IF IsSome(d) /\ IsSome(t)
             THEN Some([day |-> Unwrap(d), secs |-> Unwrap(t)])
             ELSE None
    ELSE None

\* NaiveDateTime::timestamp_millis: the naive date-time read as if it were UTC
timestamp_millis(dt) == (dt.day * SecPerDay + dt.secs) * MsPerSec

\* Local::today(): the calendar day of the instant now in the local timezone
Local_today(now, tz) == (now + tz) \div MsPerDay

\* TimeZone::from_local_datetime(&Local, dt).with_timezone(&Utc)
LocalToUtc(dt, tz) == timestamp_millis(dt) - tz


(***************************************************************************)
(* parse_date_time and parse_date_or_date_time.                            *)
(***************************************************************************)
\* today.and_time(time).unwrap().with_timezone(&Utc)
TodayAt(secs, now, tz) == LocalToUtc([day |-> Local_today(now, tz), secs |-> secs], tz)

\* a parse that cannot succeed: the final unwrap panics
ParsePanics == [ok |-> FALSE, time |-> 0]
Parsed(t)   == [ok |-> TRUE, time |-> t]

\* a parse that falls back to the current instant when nothing matches
parse_date_time_OrNow(s, t, z) ==
    IF IsSome(NaiveTime_parse(s \o << Lit(":"), Num(0), Lit(":"), Num(0) >>))
    THEN Parsed(TodayAt(Unwrap(NaiveTime_parse(s \o << Lit(":"), Num(0), Lit(":"), Num(0) >>)), t, z))
    ELSE Parsed(t)

\* parse_date_time(s): the six attempts in the order of the code; the result
\* is an instant (UTC), or the panic of the last unwrap
parse_date_time(s, now, tz) ==
    LET t1 == NaiveTime_parse(s)
        t2 == NaiveTime_parse(s \o << Lit(":"), Num(0) >>)
        t3 == NaiveTime_parse(s \o << Lit(":"), Num(0), Lit(":"), Num(0) >>)
        d4 == NaiveDateTime_parse(s)
        d5 == NaiveDateTime_parse(s \o << Lit(":"), Num(0) >>)
        d6 == NaiveDateTime_parse(s \o << Lit(":"), Num(0), Lit(":"), Num(0) >>)
    IN  IF IsSome(t1) THEN Parsed(TodayAt(Unwrap(t1), now, tz))
        ELSE IF IsSome(t2) THEN Parsed(TodayAt(Unwrap(t2), now, tz))
        ELSE IF IsSome(t3) THEN Parsed(TodayAt(Unwrap(t3), now, tz))
        ELSE IF IsSome(d4) THEN Parsed(LocalToUtc(Unwrap(d4), tz))
        ELSE IF IsSome(d5) THEN Parsed(LocalToUtc(Unwrap(d5), tz))
        ELSE IF IsSome(d6) THEN Parsed(LocalToUtc(Unwrap(d6), tz))
        ELSE ParsePanics

\* DateOrDateTime
Date(day)    == [tag |-> "Date", day |-> day, secs |-> 0]
DateTime(dt) == [tag |-> "DateTime", day |-> dt.day, secs |-> dt.secs]

\* parse_date_or_date_time(s): a date, else a date-time, else today's date
parse_date_or_date_time(s, now, tz) ==
    LET d  == NaiveDate_parse(s)
        dt == NaiveDateTime_parse(s)
    IN  IF IsSome(d) THEN Date(Unwrap(d))
        ELSE IF IsSome(dt) THEN DateTime(Unwrap(dt))
        ELSE Date(Local_today(now, tz))

(***************************************************************************)
(* Events and the storage file.                                            *)
(***************************************************************************)
\* TrackingEvent::Start(TrackingData) / TrackingEvent::Stop(TrackingData)
Start(description, time) == [kind |-> "Start", description |-> description, time |-> time]
Stop(description, time)  == [kind |-> "Stop", description |-> description, time |-> time]

time(event)     == event.time
is_start(event) == event.kind = "Start"
is_stop(event)  == event.kind = "Stop"

\* data.last()
Last(data) == IF data = << >> THEN None ELSE Some(data[Len(data)])

\* JSON values of the file
JNull   == << "null" >>
JStr(s) == << "str", s >>

\* the instant rounded to the nearest second
ts_seconds_ser_Rounded(t) == (t + MsPerSec \div 2) \div MsPerSec

\* #[serde(with = "ts_seconds")]: the instant is written as whole seconds
ts_seconds_ser(t) == t \div MsPerSec
ts_seconds_de(n)  == n * MsPerSec

\* Serialize for TrackingEvent: {"<variant>": {"description": .., "time": ..}}
SerializeEvent(event) ==
    [variant     |-> event.kind,
     description |-> IF IsSome(event.description)
                     THEN JStr(Unwrap(event.description)) ELSE JNull,
     time        |-> ts_seconds_ser(event.time)]

\* Deserialize for TrackingEvent: known variants only
Decodable(item) == item.variant \in {"Start", "Stop"}

DeserializeEvent(item) ==
    [kind        |-> item.variant,
     description |-> IF item.description = JNull THEN None
                     ELSE Some(item.description[2]),
     time        |-> ts_seconds_de(item.time)]

\* the file: absent, not readable as text, or a text that is or is not a
\* JSON array
NoFile     == [exists |-> FALSE, utf8 |-> FALSE, array |-> FALSE, items |-> << >>]
BinaryFile == [exists |-> TRUE, utf8 |-> FALSE, array |-> FALSE, items |-> << >>]
NotJson    == [exists |-> TRUE, utf8 |-> TRUE, array |-> FALSE, items |-> << >>]
JsonArray(items) == [exists |-> TRUE, utf8 |-> TRUE, array |-> TRUE, items |-> items]

\* a reader that keeps the entries it can decode
read_data_Lenient(f) ==
    IF f.exists /\ f.utf8 /\ f.array
    THEN LET good == SelectSeq(f.items, Decodable)
         IN  [i \in 1..Len(good) |-> DeserializeEvent(good[i])]
    ELSE << >>

\* read_data: read_to_string(..).unwrap_or_default(), then
\* serde_json::from_str(..).unwrap_or_default()
read_data(f) ==
    LET text == IF f.exists /\ f.utf8 THEN f ELSE NotJson
    IN  IF text.array /\ \A i \in 1..Len(text.items) : Decodable(text.items[i])
        THEN [i \in 1..Len(text.items) |-> DeserializeEvent(text.items[i])]
        ELSE << >>

\* a writer that writes no file for the empty log
write_data_SkipEmpty(d) ==
    IF d = << >> THEN NoFile
    ELSE JsonArray([i \in 1..Len(d) |-> SerializeEvent(d[i])])

\* a writer that writes the newest event only
write_data_OnlyNewest(data) ==
    IF data = << >> THEN JsonArray(<< >>)
    ELSE JsonArray(<< SerializeEvent(data[Len(data)]) >>)

\* write_data: serde_json::to_string(&data), std::fs::write
write_data(data) == JsonArray([i \in 1..Len(data) |-> SerializeEvent(data[i])])

(***************************************************************************)
(* The commands, as functions of the loaded log.                           *)
(***************************************************************************)
\* a start that adds whatever the last event is
StartShouldAdd_Always(d) == TRUE

\* Start: should_add
StartShouldAdd(d) ==
    IF Last(d) = None THEN TRUE ELSE is_stop(Unwrap(Last(d)))

\* a stop that adds only after a Start, not on the empty log
StopShouldAdd_AfterStart(d) ==
    IsSome(Last(d)) /\ is_start(Unwrap(Last(d)))

\* Stop: should_add
StopShouldAdd(d) ==
    IF Last(d) = None THEN TRUE ELSE is_start(Unwrap(Last(d)))

\* at.map(parse_date_time).unwrap_or(Local::now().into())
EventTime(at, now, tz) ==
    IF IsSome(at) THEN parse_date_time(Unwrap(at), now, tz) ELSE Parsed(now)

\* a scan from the front: the first entry that is not a Stop
RECURSIVE RevSkipStopsNext_Forward(_)
RevSkipStopsNext_Forward(d) ==
    IF d = << >> THEN None
    ELSE IF is_stop(Head(d)) THEN RevSkipStopsNext_Forward(Tail(d))
    ELSE Some(Head(d))

\* data.iter().rev().skip_while(|t| t.is_stop()).next()
RECURSIVE RevSkipStopsNext(_)
RevSkipStopsNext(d) ==
    IF d = << >> THEN None
    ELSE IF is_stop(d[Len(d)]) THEN RevSkipStopsNext(SubSeq(d, 1, Len(d) - 1))
    ELSE Some(d[Len(d)])

\* Continue: the outer `if let Some(TrackingEvent::Stop { .. }) = data.last()`
ContinueLastIsStop(d) ==
    IsSome(Last(d)) /\ is_stop(Unwrap(Last(d)))

\* a continue that takes the description of the last event
ContinueDescription_OfLast(d) ==
    IF IsSome(Last(d)) THEN Some(Unwrap(Last(d)).description) ELSE None

\* Continue: the description the new Start event takes, if one is pushed
ContinueDescription(d) ==
    LET found == RevSkipStopsNext(d)
    IN  IF IsSome(found) /\ is_start(Unwrap(found))
        THEN Some(Unwrap(found).description)
        ELSE None

\* a continue that pushes a Start whatever the log is
ContinueData_AlwaysPush(d, now) ==
    Append(d, Start(IF IsSome(ContinueDescription(d))
                    THEN Unwrap(ContinueDescription(d)) ELSE None, now))

\* a continue that pushes the Start it found as it is, with its time
ContinueData_SameEvent(d, now) ==
    IF ContinueLastIsStop(d) /\ IsSome(ContinueDescription(d))
    THEN Append(d, Unwrap(RevSkipStopsNext(d)))
    ELSE d

\* Continue: the log after the command
ContinueData(d, now) ==
    IF ContinueLastIsStop(d) /\ IsSome(ContinueDescription(d))
    THEN Append(d, Start(Unwrap(ContinueDescription(d)), now))
    ELSE d

\* Continue: whether the eprintln! of the else branch runs
ContinueNotice(d) == ~ContinueLastIsStop(d)

(***************************************************************************)
(* Show.                                                                   *)
(***************************************************************************)
\* let start = start.map(parse_date_or_date_time)
ShowStart(start, now, tz) ==
    IF IsSome(start) THEN Some(parse_date_or_date_time(Unwrap(start), now, tz))
    ELSE None

All == << Lit("all") >>

\* a default that leaves the window open above when stop is not given
ShowStop_Open(start, stop, t, z) ==
    IF IsSome(stop) /\ Unwrap(stop) # All
    THEN Some(parse_date_or_date_time(Unwrap(stop), t, z))
    ELSE None

\* let stop = match stop { .. }, given the start already resolved
ShowStop(start, stop, now, tz) ==
    IF IsSome(stop)
    THEN IF Unwrap(stop) = All THEN None
         ELSE Some(parse_date_or_date_time(Unwrap(stop), now, tz))
    ELSE IF IsSome(start) /\ Unwrap(start).tag = "DateTime"
         THEN Some(Date(Unwrap(start).day))
         ELSE start

\* the lower bound of the first filter, in milliseconds
LowerBound(start) ==
    IF start = None THEN None
    ELSE IF Unwrap(start).tag = "Date"
         THEN Some(timestamp_millis([day |-> Unwrap(start).day, secs |-> 0]))
         ELSE Some(timestamp_millis(Unwrap(start)))

\* the upper bound of the second filter, in milliseconds
UpperBound(stop) ==
    IF stop = None THEN None
    ELSE IF Unwrap(stop).tag = "Date"
         THEN Some(timestamp_millis([day |-> Unwrap(stop).day,
                                     secs |-> 23 * SecPerHour + 59 * SecPerMin + 59]))
         ELSE Some(timestamp_millis(Unwrap(stop)))

\* the window the two filters keep
Window(start, stop) == [lo |-> LowerBound(start), hi |-> UpperBound(stop)]

InWindow(entry, w) ==
    /\ (IsSome(w.lo) => time(entry) >= Unwrap(w.lo))
    /\ (IsSome(w.hi) => time(entry) <= Unwrap(w.hi))

Filtered(d, w) == SelectSeq(d, LAMBDA entry : InWindow(entry, w))

\* an iterator that skips nothing
SkipWhileStop_Keep(d) == d

\* .skip_while(|entry| TrackingEvent::is_stop(entry))
RECURSIVE SkipWhileStop(_)
SkipWhileStop(d) ==
    IF d # << >> /\ is_stop(Head(d)) THEN SkipWhileStop(Tail(d)) ELSE d

\* a loop that takes start - stop for a pair
RECURSIVE Accumulate_StartMinusStop(_, _)
Accumulate_StartMinusStop(d, now) ==
    IF Len(d) >= 2
    THEN (time(d[1]) - time(d[2])) + Accumulate_StartMinusStop(Tail(Tail(d)), now)
    ELSE IF Len(d) = 1 THEN now - time(d[1])
    ELSE 0

\* a loop that leaves a last Start without a Stop out of the total
RECURSIVE Accumulate_PairsOnly(_, _)
Accumulate_PairsOnly(d, now) ==
    IF Len(d) >= 2
    THEN (time(d[2]) - time(d[1])) + Accumulate_PairsOnly(Tail(Tail(d)), now)
    ELSE 0

\* the loop that takes the entries two at a time
RECURSIVE Accumulate(_, _)
Accumulate(d, now) ==
    IF Len(d) >= 2 THEN (time(d[2]) - time(d[1])) + Accumulate(Tail(Tail(d)), now)
    ELSE IF Len(d) = 1 THEN now - time(d[1])
    ELSE 0

\* the pairs the loop takes in its (Some(start), Some(stop)) arm
CompletePairs(d) == [k \in 1..(Len(d) \div 2) |-> << d[2 * k - 1], d[2 * k] >>]

\* work_day of show on the log d
WorkDay(d, start, stop, now, tz) ==
    LET s == ShowStart(start, now, tz)
        e == ShowStop(s, stop, now, tz)
    IN  Accumulate(SkipWhileStop(Filtered(d, Window(s, e))), now)

\* fields whose seconds are not reduced by the minutes
WorkTime_SecondsOfHour(work_day) ==
    LET hours   == TruncDiv(work_day, SecPerHour * MsPerSec)
        minutes == TruncDiv(work_day, SecPerMin * MsPerSec) - hours * MinPerHour
        seconds == TruncDiv(work_day, MsPerSec) - hours * MinPerHour * SecPerMin
    IN  [hours |-> hours, minutes |-> minutes, seconds |-> seconds]

\* "Work Time: {:02}:{:02}:{:02}"
WorkTime(work_day) ==
    LET hours   == TruncDiv(work_day, SecPerHour * MsPerSec)
        hours_in_minutes == hours * MinPerHour
        hours_in_seconds == hours_in_minutes * SecPerMin
        minutes == TruncDiv(work_day, SecPerMin * MsPerSec) - hours_in_minutes
        minutes_in_seconds == minutes * SecPerMin
        seconds == TruncDiv(work_day, MsPerSec) - hours_in_seconds - minutes_in_seconds
    IN  [hours |-> hours, minutes |-> minutes, seconds |-> seconds]

(***************************************************************************)
(* The inputs of the model.                                                *)
(***************************************************************************)
\* the instant h:m:s.ms (UTC) of the day with number day
Instant(day, h, m, sec, ms) ==
    (day * SecPerDay + h * SecPerHour + m * SecPerMin + sec) * MsPerSec + ms

\* the readings of the system clock, in the order they are taken
Clock ==
    << Instant(1, 8, 0, 0, 250),
       Instant(1, 23, 30, 0, 750),
       Instant(2, 0, 30, 20, 0) >>

\* the local timezones: UTC and UTC+2
TimeZones == {0, 2 * SecPerHour * MsPerSec}

\* the descriptions given to start and to stop
StartDescriptions == {None, Some("writing")}
StopDescriptions  == {Some("working on X")}

\* "9" and a string no attempt of parse_date_time accepts
Nine == << Num(9) >>
Soon == << Lit("soon") >>

AtStrings == { Nine, Soon }

AtOptions == {None} \cup {Some(a) : a \in AtStrings}

\* "1970-01-02", "1970-01-02 09:00:00" and a string that is neither
Day1      == << Num(1970), Lit("-"), Num(1), Lit("-"), Num(2) >>
Day1At9   == Day1 \o << Lit(" "), Num(9), Lit(":"), Num(0), Lit(":"), Num(0) >>
Yesterday == << Lit("yesterday") >>

BoundStrings == { Day1, Day1At9, Yesterday }

\* "1970-01-02" and "all"
StopStrings == { Day1, All }

\* the arguments given to show: << start, stop >>
ShowArguments ==
    ({None} \cup {Some(b) : b \in BoundStrings}) \X {None}
    \cup {None, Some(Day1)} \X {Some(b) : b \in StopStrings}

\* a file another program wrote: an array with an entry of an unknown variant
ForeignFile ==
    JsonArray(<< [variant |-> "Start", description |-> JNull, time |-> 90000],
                 [variant |-> "Pause", description |-> JNull, time |-> 90060] >>)

InitFiles == {NoFile, BinaryFile, NotJson, ForeignFile}

(***************************************************************************)
(* The state.                                                              *)
(***************************************************************************)
VARIABLES
    file,       \* the storage file
    clk,        \* the index in Clock of the last clock reading
    tz,         \* the offset of the local timezone, in milliseconds
    cmd,        \* the command of the last run
    before,     \* the storage file as the last run found it
    loaded,     \* the log the last run loaded
    data,       \* the log in memory when the last run ended
    exit,       \* how the last run ended: "ok", "panic", or "none" before any run
    notice,     \* whether the last run wrote the advisory message to stderr
    work_day,   \* the duration the last run reported (show), in milliseconds
    procs,      \* two invocations that run at the same time: where each is
    steps       \* the opens and writes of the two invocations, in their order

vars == << file, clk, tz, cmd, before, loaded, data, exit, notice, work_day,
           procs, steps >>

now == Clock[clk]

Command(name, description, at, start, stop) ==
    [name |-> name, description |-> description, at |-> at,
     start |-> start, stop |-> stop]

NoCommand == Command("none", None, None, None, None)

\* the two invocations that run at the same time
Invocations == {1, 2}

\* an invocation that has not read the file yet
Idle == [pc |-> "idle", cmd |-> NoCommand, found |-> << >>, data |-> << >>,
         early |-> FALSE]

Init ==
    /\ file \in InitFiles
    /\ clk = 1
    /\ tz \in TimeZones
    /\ cmd = NoCommand
    /\ before = file
    /\ loaded = << >>
    /\ data = << >>
    /\ exit = "none"
    /\ notice = FALSE
    /\ work_day = None
    /\ procs = [p \in Invocations |-> Idle]
    /\ steps = << >>

\* time passes between two runs: the clock moves to its next reading
Tick ==
    /\ clk < Len(Clock)
    /\ clk' = clk + 1
    /\ cmd' = NoCommand
    /\ before' = file
    /\ loaded' = << >>
    /\ data' = << >>
    /\ exit' = "none"
    /\ notice' = FALSE
    /\ work_day' = None
    /\ UNCHANGED << file, tz, procs, steps >>

\* main from read_data to write_data, for a command that leaves the log d
\* in memory and does not panic
Completes(c, d, msg, total) ==
    /\ UNCHANGED clk
    /\ cmd' = c
    /\ before' = file
    /\ loaded' = read_data(file)
    /\ data' = d
    /\ file' = write_data(d)
    /\ exit' = "ok"
    /\ notice' = msg
    /\ work_day' = total
    /\ UNCHANGED << tz, procs, steps >>

\* main for a command that panics: write_data is not reached
Panics(c) ==
    /\ UNCHANGED clk
    /\ cmd' = c
    /\ before' = file
    /\ loaded' = read_data(file)
    /\ data' = read_data(file)
    /\ exit' = "panic"
    /\ notice' = FALSE
    /\ work_day' = None
    /\ UNCHANGED << file, tz, procs, steps >>

\* Start; cap bounds the length of the logs the model lets grow
Start_(description, at, cap) ==
    LET d == read_data(file)
        c == Command("start", description, at, None, None)
        t == EventTime(at, now, tz)
    IN  /\ Len(d) < cap
        /\ IF StartShouldAdd(d)
           THEN IF t.ok
                THEN Completes(c, Append(d, Start(description, t.time)), FALSE, None)
                ELSE Panics(c)
           ELSE Completes(c, d, FALSE, None)

\* Stop
Stop_(description, at, cap) ==
    LET d == read_data(file)
        c == Command("stop", description, at, None, None)
        t == EventTime(at, now, tz)
    IN  /\ Len(d) < cap
        /\ IF StopShouldAdd(d)
           THEN IF t.ok
                THEN Completes(c, Append(d, Stop(description, t.time)), FALSE, None)
                ELSE Panics(c)
           ELSE Completes(c, d, FALSE, None)

\* Continue
Continue_(cap) ==
    LET d == read_data(file)
        c == Command("continue", None, None, None, None)
    IN  /\ Len(d) < cap
        /\ Completes(c, ContinueData(d, now), ContinueNotice(d), None)

RunStart(description, at) == Start_(description, at, MaxLog)
RunStop(description, at)  == Stop_(description, at, MaxLog)
RunContinue               == Continue_(MaxLog)

RunList ==
    Completes(Command("list", None, None, None, None), read_data(file), FALSE, None)

RunPath ==
    Completes(Command("path", None, None, None, None), read_data(file), FALSE, None)

RunShow(start, stop) ==
    LET d == read_data(file)
        c == Command("show", None, None, start, stop)
    IN  Completes(c, d, FALSE, Some(WorkDay(d, start, stop, now, tz)))

Next ==
    \/ \E description \in StartDescriptions, at \in AtOptions : RunStart(description, at)
    \/ \E description \in StopDescriptions, at \in AtOptions : RunStop(description, at)
    \/ RunContinue
    \/ RunList
    \/ RunPath
    \/ \E args \in ShowArguments : RunShow(args[1], args[2])
    \/ Tick

Spec == Init /\ [][Next]_vars

(***************************************************************************)
(* The log commands alone (start, stop and continue at the current time),  *)
(* on longer logs.                                                         *)
(***************************************************************************)
LogStart(description) == Start_(description, None, MaxLongLog)
LogStop(description)  == Stop_(description, None, MaxLongLog)
LogContinue           == Continue_(MaxLongLog)

NextLog ==
    \/ \E description \in StartDescriptions : LogStart(description)
    \/ \E description \in StopDescriptions : LogStop(description)
    \/ LogContinue
    \/ Tick

SpecLog == Init /\ [][NextLog]_vars

(***************************************************************************)
(* Two invocations at the same time on one storage file.  An invocation    *)
(* reads the file and runs its command on the log in memory (main.rs:125   *)
(* to 243), then writes the file (main.rs:245): std::fs::write opens the   *)
(* file, which empties it, and then writes the text from the first byte    *)
(* on.  The open and the write of one invocation are two steps, and the    *)
(* steps of the two invocations come in any order.                         *)
(***************************************************************************)
MaxRaceLog == 2

\* the number of decimal digits of n
RECURSIVE Digits(_)
Digits(n) == IF n < 10 THEN 1 ELSE 1 + Digits(n \div 10)

\* the length of the text of an encoded description: null, or the string quoted
DescriptionSize(j) == IF j = JNull THEN Len("null") ELSE Len(j[2]) + Len("\"\"")

\* the length of the text of one entry: {"Start":{"description":null,"time":1}}
ItemSize(item) ==
    Len("{\"\":{\"description\":,\"time\":}}")
        + Len(item.variant) + DescriptionSize(item.description) + Digits(item.time)

\* the length of the text of a file that holds a JSON array: the entries,
\* the commas between them and the brackets; 0 for the empty file
TextSize(f) ==
    IF ~f.array THEN 0
    ELSE LET S[k \in 0..Len(f.items)] ==
                 IF k = 0 THEN 0 ELSE S[k - 1] + ItemSize(f.items[k])
             commas == IF f.items = << >> THEN 0 ELSE Len(f.items) - 1
         IN  Len("[]") + S[Len(f.items)] + commas

\* File::create: the file exists and is empty; the empty text is no JSON
Truncated == NotJson

\* a write that adds the text after what the file holds
write_all_Append(f, text) ==
    IF f.array THEN JsonArray(f.items \o text.items) ELSE text

\* write_all at the start of the file: the text replaces the first bytes of
\* what the file holds; what the file holds beyond the length of the text
\* stays, and a JSON array followed by more text is no JSON
write_all(f, text) == IF TextSize(f) > TextSize(text) THEN NotJson ELSE text

\* the commands of the two invocations
RaceCommands ==
    {Command("start", description, None, None, None) : description \in StartDescriptions}
    \cup {Command("stop", description, None, None, None) : description \in StopDescriptions}
    \cup {Command("continue", None, None, None, None),
          Command("list", None, None, None, None)}

\* the log in memory after the command c on the loaded log d at the instant t
Ran(c, d, t) ==
    CASE c.name = "start" ->
             IF StartShouldAdd(d) THEN Append(d, Start(c.description, t)) ELSE d
      [] c.name = "stop" ->
             IF StopShouldAdd(d) THEN Append(d, Stop(c.description, t)) ELSE d
      [] c.name = "continue" -> ContinueData(d, t)
      [] OTHER -> d

RaceFrame == UNCHANGED << clk, tz, cmd, before, loaded, data, exit, notice, work_day >>

\* invocation p reads the file and runs the command c
Load(p, c) ==
    /\ procs[p].pc = "idle"
    /\ c.name # "list" => Len(read_data(file)) < MaxRaceLog
    /\ procs' = [procs EXCEPT ![p] =
                    [pc    |-> "loaded",
                     cmd   |-> c,
                     found |-> read_data(file),
                     data  |-> Ran(c, read_data(file), now),
                     early |-> steps = << >>]]
    /\ UNCHANGED << file, steps >>
    /\ RaceFrame

\* invocation p opens the file to write it
Open(p) ==
    /\ procs[p].pc = "loaded"
    /\ file' = Truncated
    /\ procs' = [procs EXCEPT ![p].pc = "opened"]
    /\ steps' = Append(steps, [op |-> "open", p |-> p])
    /\ RaceFrame

\* invocation p writes the text of its log
Write(p) ==
    /\ procs[p].pc = "opened"
    /\ file' = write_all(file, write_data(procs[p].data))
    /\ procs' = [procs EXCEPT ![p].pc = "done"]
    /\ steps' = Append(steps, [op |-> "write", p |-> p])
    /\ RaceFrame

\* both invocations have ended; two more begin
Rejoin ==
    /\ \A p \in Invocations : procs[p].pc = "done"
    /\ procs' = [p \in Invocations |-> Idle]
    /\ steps' = << >>
    /\ UNCHANGED file
    /\ RaceFrame

\* time passes between two pairs of invocations
RaceTick ==
    /\ \A p \in Invocations : procs[p].pc = "idle"
    /\ Tick

NextRace ==
    \/ \E p \in Invocations, c \in RaceCommands : Load(p, c)
    \/ \E p \in Invocations : Open(p)
    \/ \E p \in Invocations : Write(p)
    \/ Rejoin
    \/ RaceTick

SpecRace == Init /\ [][NextRace]_vars

(***************************************************************************)
(* Properties.  They are stated on the record the last run left: cmd,      *)
(* before, loaded, data, exit, notice, work_day, and on the file.          *)
(***************************************************************************)
LastIsStart(d) == d # << >> /\ d[Len(d)].kind = "Start"
LastIsStop(d)  == d # << >> /\ d[Len(d)].kind = "Stop"

\* d2 is d1 with exactly one event of the given kind and description at the end
AppendsOne(d1, d2, kind, description) ==
    /\ Len(d2) = Len(d1) + 1
    /\ SubSeq(d2, 1, Len(d1)) = d1
    /\ d2[Len(d2)].kind = kind
    /\ d2[Len(d2)].description = description

\* the log a reader of the file finds
Persisted == read_data(file)

\* C1: a start command that completes appends exactly one Start event
\* (with the description given) when the log is empty or ends in a Stop, and
\* leaves the log unchanged, without error or message, when the log ends in a
\* Start; a completed start leaves a log that ends in a Start, so a second
\* start right after it appends nothing.
C1_StartAppendsOnce ==
    cmd.name = "start" =>
        /\ (exit = "ok" /\ (loaded = << >> \/ LastIsStop(loaded)))
              => AppendsOne(loaded, data, "Start", cmd.description)
        /\ LastIsStart(loaded)
              => (data = loaded /\ exit = "ok" /\ notice = FALSE)
        /\ exit = "ok" => (LastIsStart(Persisted) /\ Len(Persisted) = Len(data))

\* a start on the log that one start on the empty log left
C1_Witness ==
    /\ cmd.name = "start" /\ exit = "ok"
    /\ Len(loaded) = 1 /\ LastIsStart(loaded)
    /\ data = loaded /\ Len(Persisted) = 1

\* C2: a stop command that completes appends exactly one Stop event when the
\* log is empty or ends in a Start, and appends nothing when the log ends in
\* a Stop; a stop on the empty log leaves a log that begins with a Stop.
C2_StopAppendsOnce ==
    cmd.name = "stop" =>
        /\ (exit = "ok" /\ (loaded = << >> \/ LastIsStart(loaded)))
              => AppendsOne(loaded, data, "Stop", cmd.description)
        /\ LastIsStop(loaded)
              => (data = loaded /\ exit = "ok" /\ notice = FALSE)
        /\ (exit = "ok" /\ loaded = << >>)
              => (Len(Persisted) = 1 /\ Persisted[1].kind = "Stop")

\* a stop on the empty log
C2_Witness ==
    /\ cmd.name = "stop" /\ exit = "ok" /\ loaded = << >>
    /\ Len(Persisted) = 1 /\ Persisted[1].kind = "Stop"

WorkingOnX == Some("working on X")

\* the last run was a continue on a log whose last event is the Stop that a
\* stop "working on X" appended
ContinueAfterStopX ==
    /\ cmd.name = "continue"
    /\ LastIsStop(loaded)
    /\ loaded[Len(loaded)].description = WorkingOnX

\* C3 as stated: a continue right after a stop "working on X" appends a Start
\* event whose description is "working on X".
C3_ContinueTakesStopDescription ==
    ContinueAfterStopX => AppendsOne(loaded, data, "Start", WorkingOnX)

\* C3, amended: a continue right after a stop "working on X" appends a Start
\* event at the current time with the description of the Start event that
\* the stop closed (the event before the Stop), whatever description the stop
\* carried; when the stop was applied to the empty log, continue appends
\* nothing.
C3_ContinueTakesClosedStartDescription ==
    ContinueAfterStopX =>
        /\ exit = "ok"
        /\ IF Len(loaded) >= 2
           THEN /\ loaded[Len(loaded) - 1].kind = "Start"
                /\ AppendsOne(loaded, data, "Start", loaded[Len(loaded) - 1].description)
                /\ data[Len(data)].time = now
           ELSE data = loaded

\* start "writing", stop "working on X", continue: the new Start is "writing"
C3_Witness ==
    /\ ContinueAfterStopX
    /\ Len(loaded) = 2
    /\ loaded[1].description = Some("writing")
    /\ Len(data) = 3
    /\ data[3].description = Some("writing")

\* the positions of the Start events of d
Starts(d) == {i \in 1..Len(d) : d[i].kind = "Start"}

Max(S) == CHOOSE i \in S : \A j \in S : j <= i

\* C4: on a log that ends in a Stop, continue appends exactly one Start event
\* at the current time, with the description of the most recent Start event
\* of the log; when the log holds no Start event, continue appends nothing.
C4_ContinueTakesMostRecentStart ==
    (cmd.name = "continue" /\ LastIsStop(loaded)) =>
        /\ exit = "ok"
        /\ IF Starts(loaded) = {}
           THEN data = loaded
           ELSE /\ AppendsOne(loaded, data, "Start",
                              loaded[Max(Starts(loaded))].description)
                /\ data[Len(data)].time = now
        /\ Persisted = [i \in 1..Len(data) |->
                           [data[i] EXCEPT !.time = (@ \div MsPerSec) * MsPerSec]]

\* a continue on a log with two Start events of different descriptions
C4_Witness ==
    /\ cmd.name = "continue" /\ LastIsStop(loaded)
    /\ Len(loaded) = 4
    /\ loaded[1].kind = "Start" /\ loaded[3].kind = "Start"
    /\ loaded[1].description # loaded[3].description
    /\ Len(data) = 5
    /\ data[5].description = loaded[3].description

\* a continue on a log that is one Stop event
C4_WitnessNoStart ==
    /\ cmd.name = "continue" /\ LastIsStop(loaded)
    /\ Starts(loaded) = {}
    /\ data = loaded

\* C5: a continue on the empty log appends nothing and completes; the file
\* then holds the empty log (and the advisory message was written).
C5_ContinueOnEmptyLog ==
    (cmd.name = "continue" /\ loaded = << >>) =>
        /\ data = << >>
        /\ exit = "ok"
        /\ notice
        /\ file = JsonArray(<< >>)

\* a continue when there was no file
C5_Witness ==
    /\ cmd.name = "continue" /\ loaded = << >>
    /\ before = NoFile
    /\ exit = "ok" /\ file = JsonArray(<< >>)

\* C6 as stated: a continue on a log that ends in a Start appends nothing and
\* writes no message; the advisory message is written only when the log is
\* empty.
C6_ContinueWhileRunningIsSilent ==
    cmd.name = "continue" =>
        /\ LastIsStart(loaded) => (data = loaded /\ ~notice)
        /\ notice => loaded = << >>

\* the last run was given a time string that no format accepts
UnparsableAt    == cmd.name \in {"start", "stop"} /\ cmd.at = Some(Soon)
UnparsableBound == cmd.name = "show" /\ cmd.start = Some(Yesterday)

\* C7 as stated: a start, stop or show given an unparsable time string
\* aborts, whatever the log is, and the file is left as it was.
C7_UnparsableTimeAborts ==
    (UnparsableAt \/ UnparsableBound) => (exit = "panic" /\ file = before)

\* the event of the last run's command would be appended to the loaded log
WouldAppend ==
    \/ loaded = << >>
    \/ cmd.name = "start" /\ LastIsStop(loaded)
    \/ cmd.name = "stop" /\ LastIsStart(loaded)

\* the naive window of one calendar day: 00:00:00 to 23:59:59
DayWindow(day) ==
    [lo |-> Some(day * MsPerDay), hi |-> Some(day * MsPerDay + MsPerDay - MsPerSec)]

\* C7, amended: a start or stop given an unparsable --at aborts and leaves
\* the file as it was when its event would be appended (start: the log is
\* empty or ends in a Stop; stop: the log is empty or ends in a Start); in the
\* other log states the string is never parsed and the run completes with the
\* log unchanged.  A show given an unparsable start bound never aborts: the
\* bound is today's date, and the persisted log is the one that was loaded.
C7_UnparsableTimeAbortsWhenParsed ==
    /\ UnparsableAt =>
          IF WouldAppend
          THEN exit = "panic" /\ file = before
          ELSE exit = "ok" /\ data = loaded /\ Persisted = loaded
    /\ UnparsableBound =>
          /\ exit = "ok"
          /\ Persisted = loaded
          /\ cmd.stop = None =>
                work_day = Some(Accumulate(SkipWhileStop(
                               Filtered(loaded, DayWindow((now + tz) \div MsPerDay))), now))

\* a start --at soon on a log that ends in a Stop: the run aborts
C7_Witness ==
    /\ cmd.name = "start" /\ cmd.at = Some(Soon)
    /\ LastIsStop(loaded)
    /\ exit = "panic" /\ file = before

\* a stop --at soon on a log that ends in a Stop: nothing is parsed
C7_WitnessNoOp ==
    /\ cmd.name = "stop" /\ cmd.at = Some(Soon)
    /\ LastIsStop(loaded)
    /\ exit = "ok"

\* a show yesterday on a log with events
C7_WitnessShow ==
    /\ UnparsableBound /\ loaded # << >> /\ exit = "ok"
    /\ work_day # Some(0)

\* the file cannot be read as a log: it is absent, not text, not a JSON
\* array, or an array with an entry that is no event
Undecodable(f) ==
    \/ ~f.exists
    \/ ~f.utf8
    \/ ~f.array
    \/ \E i \in 1..Len(f.items) : f.items[i].variant \notin {"Start", "Stop"}

\* C8: when the file is absent, unreadable or cannot be decoded, the run
\* loads the empty log and does not abort for it (it aborts only for an
\* unparsable --at), and a start that completes leaves a file that holds its
\* Start event and nothing else.
C8_BadFileLoadsEmpty ==
    (cmd.name # "none" /\ Undecodable(before)) =>
        /\ loaded = << >>
        /\ exit = "panic" => cmd.at = Some(Soon)
        /\ (cmd.name = "start" /\ exit = "ok") =>
              /\ file.exists /\ file.utf8 /\ file.array
              /\ Len(file.items) = 1
              /\ file.items[1].variant = "Start"
              /\ Len(Persisted) = 1
              /\ Persisted[1].kind = "Start"
              /\ Persisted[1].description = cmd.description

\* a start on a file that holds an entry of an unknown variant
C8_Witness ==
    /\ cmd.name = "start" /\ exit = "ok"
    /\ before = ForeignFile
    /\ Len(Persisted) = 1 /\ Persisted[1].kind = "Start"

\* C9: the log read back from the file that write_data wrote is the log in
\* memory, event by event: same length, same order, same kinds, same
\* descriptions, and every instant truncated to whole seconds.
C9_RoundTrip ==
    exit = "ok" =>
        /\ Len(Persisted) = Len(data)
        /\ \A i \in 1..Len(data) :
              /\ Persisted[i].kind = data[i].kind
              /\ Persisted[i].description = data[i].description
              /\ Persisted[i].time = data[i].time - (data[i].time % MsPerSec)
        /\ read_data(write_data(data)) = Persisted

\* a log of three events, with and without description, one of them at an
\* instant that is no whole second
C9_Witness ==
    /\ exit = "ok" /\ Len(data) = 3
    /\ \E i \in 1..3 : data[i].time % MsPerSec # 0
    /\ \E i \in 1..3 : data[i].description = None
    /\ \E i \in 1..3 : data[i].description # None
    /\ Persisted # data

\* 23:59:59 of 1970-01-02, the day of Day1 and of Day1At9
EndOfDay1 == Instant(1, 23, 59, 59, 0)

\* C10: a show with a start bound and no stop bound counts up to 23:59:59 of
\* the start bound's day, for a Date and for a DateTime start; on every log
\* `show 1970-01-02` reports the total of `show 1970-01-02 1970-01-02`.
C10_StopDefaultsToEndOfStartDay ==
    /\ (cmd.name = "show" /\ cmd.stop = None /\ cmd.start \in {Some(Day1), Some(Day1At9)}) =>
          LET lo == IF cmd.start = Some(Day1)
                    THEN Instant(1, 0, 0, 0, 0) ELSE Instant(1, 9, 0, 0, 0)
          IN  work_day = Some(Accumulate(SkipWhileStop(
                             Filtered(loaded, [lo |-> Some(lo), hi |-> Some(EndOfDay1)])), now))
    /\ (cmd.name = "show" /\ cmd.stop = None /\ cmd.start = Some(Day1)) =>
          work_day = Some(WorkDay(loaded, Some(Day1), Some(Day1), now, tz))
    /\ WorkDay(Persisted, Some(Day1), None, now, tz)
          = WorkDay(Persisted, Some(Day1), Some(Day1), now, tz)

\* a show 1970-01-02 on a log with events on that day and after it, where
\* the events after it would change the total
C10_Witness ==
    /\ cmd.name = "show" /\ cmd.stop = None /\ cmd.start = Some(Day1)
    /\ \E i \in 1..Len(loaded) : loaded[i].time <= EndOfDay1
    /\ \E i \in 1..Len(loaded) : loaded[i].time > EndOfDay1
    /\ work_day # Some(WorkDay(loaded, Some(Day1), Some(All), now, tz))


\* the last run was a show given neither bound
BareShow == cmd.name = "show" /\ cmd.start = None /\ cmd.stop = None

\* the number of the current day in the local timezone
Today == Local_today(now, tz)

\* C11 as stated: a show given neither bound counts the events of the
\* current day only: from 00:00:00 of the current day to 23:59:59 of it.
C11_BareShowCountsToday ==
    BareShow =>
        work_day = Some(Accumulate(SkipWhileStop(Filtered(loaded, DayWindow(Today))), now))


\* the bounds the last run's show filtered with
ShownStart == ShowStart(cmd.start, now, tz)
ShownStop  == ShowStop(ShownStart, cmd.stop, now, tz)

\* the instant at which the local clock shows the naive date and time dt
LocalInstant(dt) == timestamp_millis(dt) - tz

\* the window of the bounds read in the local timezone: a Date start is
\* 00:00:00 of its day, a Date stop is 23:59:59 of its day
LocalWindow(start, stop) ==
    [lo |-> IF start = None THEN None
            ELSE IF Unwrap(start).tag = "Date"
                 THEN Some(LocalInstant([day |-> Unwrap(start).day, secs |-> 0]))
                 ELSE Some(LocalInstant(Unwrap(start))),
     hi |-> IF stop = None THEN None
            ELSE IF Unwrap(stop).tag = "Date"
                 THEN Some(LocalInstant([day |-> Unwrap(stop).day, secs |-> SecPerDay - 1]))
                 ELSE Some(LocalInstant(Unwrap(stop)))]

\* C12 as stated: show keeps exactly the events whose instant lies between
\* its bounds, both included, a Date bound being read in the local timezone
\* (start: local midnight, stop: 23:59:59 local), an absent bound and "all"
\* leaving that side open; this in every local timezone.
C12_FilterKeepsLocalWindow ==
    cmd.name = "show" =>
        /\ Filtered(loaded, Window(ShownStart, ShownStop))
              = Filtered(loaded, LocalWindow(ShownStart, ShownStop))
        /\ work_day = Some(Accumulate(SkipWhileStop(
                          Filtered(loaded, LocalWindow(ShownStart, ShownStop))), now))


\* the events the two filters of the last run's show kept
ShownWindow   == Window(ShownStart, ShownStop)
ShownFiltered == Filtered(loaded, ShownWindow)

\* no two neighbours of d are of the same kind
Alternating(d) == \A i \in 1..(Len(d) - 1) : d[i].kind # d[i + 1].kind

\* the sum of stop - start over the pairs (f[1], f[2]), (f[3], f[4]), ...
PairedTotal(f) ==
    LET S[k \in 0..(Len(f) \div 2)] ==
            IF k = 0 THEN 0 ELSE S[k - 1] + (f[2 * k].time - f[2 * k - 1].time)
    IN  S[Len(f) \div 2]

\* now - start for a last Start that has no Stop after it in f
TrailingTerm(f, t) == IF Len(f) % 2 = 1 THEN t - f[Len(f)].time ELSE 0

\* C13: when the filtered events alternate and begin with a Start, the
\* total of show is the sum of stop - start over the complete pairs, plus
\* now - start for a last Start left without a Stop in the window, also when
\* the Stop of that Start is in the log but after the upper bound.
C13_TotalIsPairsPlusOpenStart ==
    (/\ cmd.name = "show"
     /\ ShownFiltered # << >>
     /\ is_start(Head(ShownFiltered))
     /\ Alternating(ShownFiltered))
    => work_day = Some(PairedTotal(ShownFiltered) + TrailingTerm(ShownFiltered, now))

\* a show whose window ends between a Start and its Stop: the Stop is in the
\* log at an instant that is not the current one, and the total runs to now
C13_Witness ==
    /\ cmd.name = "show"
    /\ Len(loaded) = 2
    /\ ShownFiltered = << loaded[1] >>
    /\ is_start(loaded[1]) /\ is_stop(loaded[2])
    /\ IsSome(ShownWindow.hi) /\ time(loaded[2]) > Unwrap(ShownWindow.hi)
    /\ time(loaded[2]) # now
    /\ work_day = Some(now - time(loaded[1]))

\* a show that adds a complete pair and a last open Start
C13_WitnessPairAndOpen ==
    /\ cmd.name = "show"
    /\ Len(ShownFiltered) = 3
    /\ is_start(Head(ShownFiltered)) /\ Alternating(ShownFiltered)
    /\ time(ShownFiltered[2]) > time(ShownFiltered[1])
    /\ now > time(ShownFiltered[3])


\* the positions of the Start events of f
StartPositions(f) == {i \in 1..Len(f) : is_start(f[i])}

\* f from its first Start on; empty when f has no Start
FromFirstStart(f) ==
    IF StartPositions(f) = {} THEN << >>
    ELSE SubSeq(f, CHOOSE i \in StartPositions(f) :
                       \A j \in StartPositions(f) : i <= j, Len(f))

\* C14: when the first event in the window is a Stop, show discards it and
\* every Stop that follows it directly, and accumulates from the next Start
\* on; the discarded Stops add nothing to the total.
C14_LeadingStopsAreDiscarded ==
    (/\ cmd.name = "show"
     /\ ShownFiltered # << >>
     /\ is_stop(Head(ShownFiltered)))
    => work_day = Some(PairedTotal(FromFirstStart(ShownFiltered))
                       + TrailingTerm(FromFirstStart(ShownFiltered), now))

\* a show whose window begins with a Stop that a Start follows: the total
\* is the time since that Start
C14_Witness ==
    /\ cmd.name = "show"
    /\ Len(ShownFiltered) = 2
    /\ is_stop(ShownFiltered[1]) /\ is_start(ShownFiltered[2])
    /\ time(ShownFiltered[2]) > time(ShownFiltered[1])
    /\ work_day = Some(now - time(ShownFiltered[2]))
    /\ now > time(ShownFiltered[2])

\* a show whose window holds a Stop alone: the total is zero
C14_WitnessStopAlone ==
    /\ cmd.name = "show"
    /\ Len(ShownFiltered) = 1 /\ is_stop(ShownFiltered[1])
    /\ Len(loaded) > 1
    /\ work_day = Some(0)


\* d2 is d1, or d1 with one event more at its end
SameOrOneMore(d1, d2) ==
    \/ d2 = d1
    \/ Len(d2) = Len(d1) + 1 /\ SubSeq(d2, 1, Len(d1)) = d1

\* C15: start, stop and continue leave the events of the log as they were
\* and in their order: the new log is the old one, or the old one with one
\* event more at its end; list, path and show leave the log as it was.  This
\* of the log in memory and of the log in the file, which every run that
\* completes writes anew in full.
C15_LogIsAppendOnly ==
    exit # "none" =>
        /\ loaded = read_data(before)
        /\ cmd.name \in {"start", "stop", "continue"} => SameOrOneMore(loaded, data)
        /\ cmd.name \in {"list", "path", "show"} => data = loaded
        /\ exit = "ok" =>
              /\ file.exists /\ file.utf8 /\ file.array
              /\ Len(Persisted) = Len(data)
              /\ SubSeq(Persisted, 1, Len(loaded)) = loaded
        /\ exit = "panic" => file = before /\ data = loaded

\* a command that adds a third event to a log of two: the two are kept
C15_Witness ==
    /\ cmd.name \in {"start", "stop", "continue"}
    /\ Len(loaded) = 2 /\ Len(data) = 3
    /\ SubSeq(Persisted, 1, 2) = loaded
    /\ Len(Persisted) = 3

\* a list, path or show that writes the file anew with the log it found
C15_WitnessRewrite ==
    /\ cmd.name \in {"list", "path", "show"}
    /\ loaded # << >>
    /\ Persisted = loaded
    /\ exit = "ok"


\* the three fields the last run's show printed
Printed == WorkTime(Unwrap(work_day))

\* the whole seconds of a duration in milliseconds: num_seconds
WholeSeconds(ms) == IF ms >= 0 THEN ms \div MsPerSec ELSE -((-ms) \div MsPerSec)

\* the fields add up to the whole seconds of the total
FieldsAddUp ==
    Printed.hours * SecPerHour + Printed.minutes * SecPerMin + Printed.seconds
        = WholeSeconds(Unwrap(work_day))

\* C16 as stated: the fields show prints add up to the whole seconds of the
\* total, with minutes and seconds from 0 to 59, for every total show reaches.
C16_FieldsAreClockFields ==
    cmd.name = "show" =>
        /\ FieldsAddUp
        /\ Printed.minutes \in 0..(MinPerHour - 1)
        /\ Printed.seconds \in 0..(SecPerMin - 1)

\* What show prints in place of C16: the fields add up to the whole seconds
\* of the total (rounded toward zero); for a total that is not negative the hours
\* are not negative and minutes and seconds are from 0 to 59; for a negative
\* total, which show reaches when an event lies after the current instant or
\* a Stop lies before its Start, the hours are not positive and minutes and
\* seconds are from -59 to 0.
C16_FieldsFollowTheSign ==
    cmd.name = "show" =>
        /\ FieldsAddUp
        /\ Unwrap(work_day) >= 0 =>
              /\ Printed.hours >= 0
              /\ Printed.minutes \in 0..(MinPerHour - 1)
              /\ Printed.seconds \in 0..(SecPerMin - 1)
        /\ Unwrap(work_day) < 0 =>
              /\ Printed.hours <= 0
              /\ Printed.minutes \in (1 - MinPerHour)..0
              /\ Printed.seconds \in (1 - SecPerMin)..0

\* a show of a negative total: the minutes and seconds printed are negative
C16_WitnessNegative ==
    /\ cmd.name = "show"
    /\ Unwrap(work_day) < 0
    /\ Printed.minutes < 0 /\ Printed.seconds < 0

\* a show of a positive total of hours and minutes
C16_WitnessPositive ==
    /\ cmd.name = "show"
    /\ Printed.hours > 0 /\ Printed.minutes > 0


\* a show of a positive total whose three fields are all positive
C16_WitnessAllFields ==
    /\ cmd.name = "show"
    /\ Printed.hours > 0 /\ Printed.minutes > 0 /\ Printed.seconds > 0


\* both invocations have written, and both read the file before either
\* opened it to write
BothDone  == \A p \in Invocations : procs[p].pc = "done"
BothEarly == \A p \in Invocations : procs[p].early

\* the invocation that wrote last, and the other one
LastWriter  == steps[Len(steps)].p
FirstWriter == CHOOSE p \in Invocations : p # LastWriter

\* the place in steps of the step op of invocation p
PositionOf(op, p) == CHOOSE i \in 1..Len(steps) : steps[i] = [op |-> op, p |-> p]

\* the last writer opened the file before the first writer wrote
WritesOverlap == PositionOf("open", LastWriter) < PositionOf("write", FirstWriter)

\* the texts the two invocations wrote
LastText  == write_data(procs[LastWriter].data)
FirstText == write_data(procs[FirstWriter].data)

\* C17 as stated: when two invocations both load the log before either
\* persists, the file finally holds the log of the invocation that wrote
\* last and nothing else.
C17_LastWriterWins ==
    (BothDone /\ BothEarly) => file = LastText

\* C17, amended: when two invocations both load the log before either
\* persists, the file finally holds the log of the invocation that wrote
\* last, except when the last writer opened the file before the other wrote
\* and its text is shorter than the other's: then the file holds its text
\* followed by the rest of the other's, which is no valid encoding and loads
\* as the empty log.  In both cases the event the other invocation appended
\* is lost, and the log read from the file is never a mix of the two logs.
C17_LastWriterWinsOrFileIsTorn ==
    (BothDone /\ BothEarly) =>
        /\ IF WritesOverlap /\ TextSize(LastText) < TextSize(FirstText)
           THEN file = NotJson /\ Persisted = << >>
           ELSE file = LastText
        /\ Persisted \in {<< >>, read_data(LastText)}

\* two invocations that each append an event of their own to a log they both
\* loaded: the file holds the log of the last writer, without the other event
C17_Witness ==
    /\ BothDone /\ BothEarly
    /\ procs[1].found # << >>
    /\ \A p \in Invocations : Len(procs[p].data) = Len(procs[p].found) + 1
    /\ procs[1].data # procs[2].data
    /\ file = LastText
    /\ Persisted # read_data(FirstText)

\* two invocations whose writes overlap, the shorter text written last: the
\* file decodes to no log at all, although both logs had events
C17_WitnessTorn ==
    /\ BothDone /\ BothEarly
    /\ WritesOverlap
    /\ procs[LastWriter].data # << >>
    /\ file = NotJson


\* C18: from the empty log, after any sequence of start, stop, continue,
\* list, path and show commands, no two consecutive events of the log are of
\* the same kind: neither in the log in memory nor in the log in the file.
C18_EventsAlternate ==
    /\ Alternating(loaded)
    /\ Alternating(data)
    /\ Alternating(Persisted)

\* a continue that appends the third event of a log: Start, Stop, Start
C18_Witness ==
    /\ cmd.name = "continue"
    /\ Len(loaded) = 2 /\ Len(data) = 3
    /\ is_start(data[1]) /\ is_stop(data[2]) /\ is_start(data[3])
    /\ Persisted # << >>

\* a log that begins with a Stop and goes on with a Start
C18_WitnessLeadingStop ==
    /\ Len(Persisted) = 3
    /\ is_stop(Persisted[1]) /\ is_start(Persisted[2]) /\ is_stop(Persisted[3])


\* the instants of d do not decrease in the order of d
NonDecreasing(d) == \A i \in 1..(Len(d) - 1) : time(d[i]) <= time(d[i + 1])

\* the instant of the event is a reading of the clock, as it is for an event
\* of a command given no --at: the reading itself in memory, its whole
\* seconds once written; no --at string of the model gives such an instant
AtClockReading(event) ==
    \E k \in 1..Len(Clock) :
        time(event) \in {Clock[k], ts_seconds_de(ts_seconds_ser(Clock[k]))}

NoEventAt(d) == \A i \in 1..Len(d) : AtClockReading(d[i])

\* C19 as stated: from the empty log, after any sequence of start, stop and
\* continue commands, with --at or without, the instants of the events do
\* not decrease in log order.
C19_InstantsNeverDecrease ==
    /\ NonDecreasing(data)
    /\ NonDecreasing(Persisted)

\* C19, amended: from the empty log, after any sequence of start, stop and
\* continue commands none of which is given --at, the instants of the events
\* do not decrease in log order, the clock not going back.  An instant given
\* with --at is taken as it is and may lie before the event it follows.
C19_InstantsNeverDecreaseWithoutAt ==
    /\ NoEventAt(data) => NonDecreasing(data)
    /\ NoEventAt(Persisted) => NonDecreasing(Persisted)

\* a log of three events, none given --at, at three instants
C19_Witness ==
    /\ cmd.name \in {"start", "stop", "continue"}
    /\ Len(data) = 3 /\ NoEventAt(data)
    /\ time(data[1]) < time(data[2]) /\ time(data[2]) < time(data[3])

\* a log with an event given --at that lies before the event it follows
C19_WitnessAt ==
    /\ cmd.name \in {"start", "stop"} /\ IsSome(cmd.at)
    /\ Len(data) = Len(loaded) + 1
    /\ loaded # << >>
    /\ time(data[Len(data)]) < time(data[Len(loaded)])


\* the log d, each event with its place in d
Placed(d) ==
    [i \in 1..Len(d) |->
        [kind |-> d[i].kind, description |-> d[i].description,
         time |-> d[i].time, place |-> i]]

\* the pairs the loop of the last run's show took as complete
ShownPairs == CompletePairs(SkipWhileStop(Filtered(Placed(loaded), ShownWindow)))

\* every pair is a Start and the Stop next to it in the log
PairsAreAdjacent ==
    \A k \in 1..Len(ShownPairs) :
        /\ is_start(ShownPairs[k][1])
        /\ is_stop(ShownPairs[k][2])
        /\ ShownPairs[k][2].place = ShownPairs[k][1].place + 1

\* no event of d is after the instant t
NoneAfter(d, t) == \A i \in 1..Len(d) : time(d[i]) <= t

\* C20 as stated: for every reachable log and every window, each pair show
\* takes as complete is a Start and the Stop next to it in the log, and the
\* total is not negative.
C20_PairsAdjacentTotalNotNegative ==
    cmd.name = "show" => (PairsAreAdjacent /\ Unwrap(work_day) >= 0)

\* C20, amended: for every reachable log whose instants do not decrease in
\* log order and are not after the current instant, as in every log built
\* without --at, and for every window, each pair show takes as complete is a
\* Start and the Stop next to it in the log, and the total is not negative.
\* On a log where --at has put an event before the one it follows or after
\* the current instant, show may pair a Start with an event that is not the
\* Stop next to it and may report a negative total.
C20_PairsAdjacentOnChronologicalLog ==
    (/\ cmd.name = "show"
     /\ NonDecreasing(loaded)
     /\ NoneAfter(loaded, now))
    => (PairsAreAdjacent /\ Unwrap(work_day) >= 0)

\* a show on a chronological log of three events that takes one complete
\* pair: its window leaves the first event, a Stop, out
C20_Witness ==
    /\ cmd.name = "show"
    /\ NonDecreasing(loaded) /\ NoneAfter(loaded, now)
    /\ Len(loaded) = 3 /\ is_stop(loaded[1])
    /\ Len(ShownPairs) = 1
    /\ ShownPairs[1][1].place = 2
    /\ Unwrap(work_day) > 0

\* a show that pairs a Start with a Start: the Stop between them is before
\* the window
C20_WitnessStartWithStart ==
    /\ cmd.name = "show"
    /\ Len(ShownPairs) = 1
    /\ is_start(ShownPairs[1][1]) /\ is_start(ShownPairs[1][2])

=============================================================================
